---- MODULE Spec2Model ----
(***************************************************************************)
(* Model of process_video_fft.py: the command line driver (main), the      *)
(* frame pipeline (process_video, process_frame_fft), the viewer generator *)
(* (generate_html) and the script of the generated viewer (syncVideos,     *)
(* togglePlayPause, seek, updateProgress, stepForward, stepBackward and    *)
(* the play/pause/timeupdate listeners).                                   *)
(*                                                                         *)
(* The specifications share the variables; each one drives one component  *)
(* and leaves the variables of the others at their idle values:            *)
(*   Spec        main + process_video + generate_html (one program run)    *)
(*   HtmlSpec    generate_html as a function of the two paths              *)
(*   FftSpec     process_frame_fft as a function of one grayscale frame    *)
(*   ViewerSpec  the viewer's script under the browser's event loop        *)
(*   ViewerFair  ViewerSpec plus: a queued media event is dispatched       *)
(***************************************************************************)
EXTENDS Integers, Sequences, FiniteSets

VARIABLES
    \* ---- one run of main -------------------------------------------------
    pc,          \* where main is: start, open, loop, html, except, done
    argInput,    \* args.input
    argOutput,   \* args.output
    inputExists, \* Path(args.input).exists()
    capOpens,    \* whether cv2.VideoCapture can open the input
    writerOpens, \* whether cv2.VideoWriter can open the output (codec, directory)
    htmlWritable,\* whether open(html_path, 'w') succeeds
    nFrames,     \* how many frames the decoder yields before ret is False
    nextFrame,   \* index of the frame the next cap.read() yields
    capHandle,   \* cap: none, open, failed, released
    outHandle,   \* out: none, open, failed, released
    outFrames,   \* the frames appended to the output video, in order
    frameCount,  \* frame_count
    pvState,     \* process_video: idle, running, returned, raised
    raisedIn,    \* the step whose exception ended process_video ("" if none)
    htmlFile,    \* the HTML file on disk: <<>> (absent) or <<document>>
    printed,     \* the lines printed, in order
    exitCode,    \* <<>> while main runs, then <<code>>
    \* ---- generate_html as a function -------------------------------------
    hIn,         \* input_video
    hOut,        \* output_video
    hDoc,        \* <<>> or <<html_content after both substitutions>>
    \* ---- process_frame_fft as a function ---------------------------------
    gray,        \* the grayscale frame: [rows, cols, px]
    fftOut,      \* <<>> or <<the grid returned>>
    \* ---- the generated viewer --------------------------------------------
    paused1,     \* video1.paused
    paused2,     \* video2.paused
    time1,       \* video1.currentTime, in ticks of 1/60 s
    time2,       \* video2.currentTime
    isSeeking,   \* let isSeeking
    timers,      \* number of pending setTimeout(() => { isSeeking = false }, 100)
    btnLabel,    \* playPauseBtn.textContent: "Play" or "Pause"
    seekBar,     \* seekBar.value in tenths (the range input has step 0.1): 0..1000
    events,      \* media events queued and not yet dispatched, oldest first
    opsLeft,     \* user operations still to come
    lastOp       \* what the last step did (for stating the claims)

pipeVars == <<pc, argInput, argOutput, inputExists, capOpens, writerOpens,
              htmlWritable, nFrames, nextFrame, capHandle, outHandle, outFrames,
              frameCount, pvState, raisedIn, htmlFile, printed, exitCode>>
htmlVars == <<hIn, hOut, hDoc>>
fftVars == <<gray, fftOut>>
viewVars == <<paused1, paused2, time1, time2, isSeeking, timers, btnLabel,
              seekBar, events, opsLeft, lastOp>>
vars == <<pipeVars, htmlVars, fftVars, viewVars>>
notPipe == <<htmlVars, fftVars, viewVars>>
notHtml == <<pipeVars, fftVars, viewVars>>
notFft == <<pipeVars, htmlVars, viewVars>>
notView == <<pipeVars, htmlVars, fftVars>>

(***************************************************************************)
(* Bounds.                                                                 *)
(***************************************************************************)
MaxFrames == 3
MaxNameLen == 3
MaxOps == 3
MaxEvents == 3
MaxTimers == 2
Duration == 5

(***************************************************************************)
(* Strings are sequences of symbols. "IN", "OUT" and "PUT_VIDEO" are the   *)
(* pieces the two placeholders are made of, "x" is any other character and *)
(* "/" the path separator; the template's fixed text between the           *)
(* placeholders is one symbol per piece.                                   *)
(***************************************************************************)
NameSyms == {"IN", "OUT", "PUT_VIDEO", "x"}
PathSyms == NameSyms \cup {"/"}
INPUT_VIDEO == <<"IN", "PUT_VIDEO">>
OUTPUT_VIDEO == <<"OUT", "PUT_VIDEO">>

RECURSIVE StripSlashes(_)
StripSlashes(p) ==
    IF Len(p) > 0 /\ p[Len(p)] = "/" THEN StripSlashes(SubSeq(p, 1, Len(p) - 1))
    ELSE p

\* Path(p).name: the last component of p, trailing separators dropped.
PathName(p) ==
    LET q == StripSlashes(p)
        cuts == {i \in 1..Len(q) : q[i] = "/"}
        last == IF cuts = {} THEN 0 ELSE CHOOSE i \in cuts : \A j \in cuts : j <= i
    IN SubSeq(q, last + 1, Len(q))

IsAt(s, old, i) ==
    /\ i + Len(old) - 1 <= Len(s)
    /\ SubSeq(s, i, i + Len(old) - 1) = old

\* str.replace(old, new): every non-overlapping occurrence, left to right; the
\* text inserted is not scanned again.
RECURSIVE ReplaceFrom(_, _, _, _)
ReplaceFrom(s, old, new, i) ==
    IF i > Len(s) THEN <<>>
    ELSE IF IsAt(s, old, i) THEN new \o ReplaceFrom(s, old, new, i + Len(old))
    ELSE <<s[i]>> \o ReplaceFrom(s, old, new, i + 1)

Replace(s, old, new) == ReplaceFrom(s, old, new, 1)

\* html_content before substitution: the text up to video1's src, the
\* placeholder, the text between the two video elements, the placeholder, the
\* rest (which holds the script).
Template ==
    <<"<head+controls>", "<video id=video1 src=\"">> \o INPUT_VIDEO \o
    <<"\"></video>", "<video id=video2 src=\"">> \o OUTPUT_VIDEO \o
    <<"\"></video>", "<script>">>

SecondSubstitution(doc, output_name) == Replace(doc, OUTPUT_VIDEO, output_name)

\* generate_html's html_content as written to html_path.
HtmlContent(input_video, output_video) ==
    LET input_name == PathName(input_video)
        output_name == PathName(output_video)
        first == Replace(Template, INPUT_VIDEO, input_name)
    IN SecondSubstitution(first, output_name)

(***************************************************************************)
(* main, process_video.                                                    *)
(***************************************************************************)
RunPaths == {<<"x">>, <<"x", "/", "x", "x">>}
Cwd == <<"/", "x">>

\* Path(p).resolve(), as a string: an absolute path stays, a relative one is
\* placed under the working directory.
Resolve(p) == IF Len(p) > 0 /\ p[1] = "/" THEN p ELSE Cwd \o <<"/">> \o p

\* main without the validation of the input file (a faulty variant).
InputMissingSkipped(exists) == FALSE

\* main: `if not input_path.exists()`
InputMissing(exists) == ~exists

Line(tag, arg) == [tag |-> tag, arg |-> arg]

PipeInit ==
    /\ pc = "start"
    /\ argInput \in RunPaths
    /\ argOutput \in RunPaths
    /\ inputExists \in BOOLEAN
    /\ capOpens \in BOOLEAN
    /\ writerOpens \in BOOLEAN
    /\ htmlWritable \in BOOLEAN
    /\ nFrames \in 0..MaxFrames
    /\ nextFrame = 1
    /\ capHandle = "none"
    /\ outHandle = "none"
    /\ outFrames = <<>>
    /\ frameCount = 0
    /\ pvState = "idle"
    /\ raisedIn = ""
    /\ htmlFile = <<>>
    /\ printed = <<>>
    /\ exitCode = <<>>

PipeIdle ==
    /\ pc = "idle"
    /\ argInput = <<>>
    /\ argOutput = <<>>
    /\ inputExists = FALSE
    /\ capOpens = FALSE
    /\ writerOpens = FALSE
    /\ htmlWritable = FALSE
    /\ nFrames = 0
    /\ nextFrame = 1
    /\ capHandle = "none"
    /\ outHandle = "none"
    /\ outFrames = <<>>
    /\ frameCount = 0
    /\ pvState = "idle"
    /\ raisedIn = ""
    /\ htmlFile = <<>>
    /\ printed = <<>>
    /\ exitCode = <<>>

\* main up to the try block: parse the arguments, validate the input file.
MainValidate ==
    /\ pc = "start"
    /\ UNCHANGED notPipe
    /\ IF InputMissing(inputExists)
       THEN /\ printed' = Append(printed, Line("Error: Input file not found: ", argInput))
            /\ exitCode' = <<1>>
            /\ pc' = "done"
       ELSE /\ pc' = "open"
            /\ UNCHANGED <<printed, exitCode>>
    /\ UNCHANGED <<argInput, argOutput, inputExists, capOpens, writerOpens,
                   htmlWritable, nFrames, nextFrame, capHandle, outHandle,
                   outFrames, frameCount, pvState, raisedIn, htmlFile>>

\* process_video up to the loop: open the capture, read the properties, create
\* the writer. cv2.VideoWriter does not raise when it cannot open the output;
\* the code does not ask out.isOpened().
OpenVideo ==
    /\ pc = "open"
    /\ UNCHANGED notPipe
    /\ IF ~capOpens
       THEN /\ capHandle' = "failed"
            /\ pvState' = "raised"
            /\ raisedIn' = "open"
            /\ pc' = "except"
            /\ UNCHANGED <<outHandle, printed>>
       ELSE /\ capHandle' = "open"
            /\ outHandle' = IF writerOpens THEN "open" ELSE "failed"
            /\ printed' = printed \o <<Line("Processing video: ", argInput),
                                       Line("Resolution: ", <<>>)>>
            /\ pvState' = "running"
            /\ pc' = "loop"
            /\ UNCHANGED raisedIn
    /\ UNCHANGED <<argInput, argOutput, inputExists, capOpens, writerOpens,
                   htmlWritable, nFrames, nextFrame, outFrames, frameCount,
                   htmlFile, exitCode>>

LoopSteps == {"decode", "gray", "fft", "write"}

\* out.write(frame): appends to an opened writer, does nothing on one that
\* failed to open.
WriterWrite(handle, frames, f) == IF handle = "open" THEN Append(frames, f) ELSE frames

\* One pass of `while True`: either a step raises (the exception leaves
\* process_video; nothing after the raise runs), or the decoder is at its end
\* (break, release both, return), or one frame is read, transformed and written.
FrameStep ==
    /\ pc = "loop"
    /\ UNCHANGED notPipe
    /\ \/ \E step \in LoopSteps :
            /\ step = "decode" \/ nextFrame <= nFrames
            /\ pvState' = "raised"
            /\ raisedIn' = step
            /\ pc' = "except"
            /\ UNCHANGED <<nextFrame, capHandle, outHandle, outFrames, frameCount, printed>>
       \/ /\ nextFrame > nFrames
          /\ capHandle' = "released"
          /\ outHandle' = "released"
          /\ printed' = Append(printed, Line("Processing complete! Output saved to: ",
                                             Resolve(argOutput)))
          /\ pvState' = "returned"
          /\ pc' = "html"
          /\ UNCHANGED <<nextFrame, outFrames, frameCount, raisedIn>>
       \/ /\ nextFrame <= nFrames
          /\ outFrames' = WriterWrite(outHandle, outFrames, nextFrame)
          /\ nextFrame' = nextFrame + 1
          /\ frameCount' = frameCount + 1
          /\ printed' = IF (frameCount + 1) % 30 = 0
                        THEN Append(printed, Line("Processed frames", <<>>))
                        ELSE printed
          /\ UNCHANGED <<capHandle, outHandle, pvState, raisedIn, pc>>
    /\ UNCHANGED <<argInput, argOutput, inputExists, capOpens, writerOpens,
                   htmlWritable, nFrames, htmlFile, exitCode>>

\* main after process_video returned: generate_html, the closing prints,
\* return 0; open() raising leads to the except block.
GenerateHtml ==
    /\ pc = "html"
    /\ UNCHANGED notPipe
    /\ IF htmlWritable
       THEN /\ htmlFile' = <<HtmlContent(argInput, Resolve(argOutput))>>
            /\ printed' = printed \o <<Line("HTML visualization generated: ", <<>>),
                                       Line("Complete!", <<>>)>>
            /\ exitCode' = <<0>>
            /\ pc' = "done"
            /\ UNCHANGED raisedIn
       ELSE /\ raisedIn' = "html"
            /\ pc' = "except"
            /\ UNCHANGED <<htmlFile, printed, exitCode>>
    /\ UNCHANGED <<argInput, argOutput, inputExists, capOpens, writerOpens,
                   htmlWritable, nFrames, nextFrame, capHandle, outHandle,
                   outFrames, frameCount, pvState>>

\* main's `except Exception as e`: report, return 1.
ExceptHandler ==
    /\ pc = "except"
    /\ UNCHANGED notPipe
    /\ printed' = Append(printed, Line("Error during processing: ", <<raisedIn>>))
    /\ exitCode' = <<1>>
    /\ pc' = "done"
    /\ UNCHANGED <<argInput, argOutput, inputExists, capOpens, writerOpens,
                   htmlWritable, nFrames, nextFrame, capHandle, outHandle,
                   outFrames, frameCount, pvState, raisedIn, htmlFile>>

PipeNext == MainValidate \/ OpenVideo \/ FrameStep \/ GenerateHtml \/ ExceptHandler

(***************************************************************************)
(* generate_html as a function of its two paths.                           *)
(***************************************************************************)
RECURSIVE SeqsUpTo(_, _)
SeqsUpTo(S, n) ==
    IF n = 0 THEN {<<>>}
    ELSE LET shorter == SeqsUpTo(S, n - 1)
         IN shorter \cup {Append(s, x) : s \in {t \in shorter : Len(t) = n - 1}, x \in S}

\* Paths with a file name in them.
HtmlPaths == {p \in SeqsUpTo(PathSyms, MaxNameLen) : PathName(p) # <<>>}

HtmlInit ==
    /\ hIn \in HtmlPaths
    /\ hOut \in HtmlPaths
    /\ hDoc = <<>>

HtmlIdle ==
    /\ hIn = <<>>
    /\ hOut = <<>>
    /\ hDoc = <<>>

GenerateDocument ==
    /\ hDoc = <<>>
    /\ hDoc' = <<HtmlContent(hIn, hOut)>>
    /\ UNCHANGED <<hIn, hOut>>
    /\ UNCHANGED notHtml

(***************************************************************************)
(* process_frame_fft. A frame is [rows, cols, px] with px[r][c] the 8-bit  *)
(* intensity, rows and columns counted from 0. The frame sizes are those   *)
(* whose transform has integer coefficients (lengths 1 and 2: the twiddle  *)
(* factors are 1 and -1), so every magnitude is computed exactly.          *)
(***************************************************************************)
Dims == {1, 2}
Pixels == {0, 1, 2, 255}

Cells(g) == (0..(g.rows - 1)) \X (0..(g.cols - 1))

\* The grid of the shape of g whose cell <<r, c>> holds f[<<r, c>>].
Grid(g, f) ==
    [rows |-> g.rows, cols |-> g.cols,
     px |-> [r \in 0..(g.rows - 1) |-> [c \in 0..(g.cols - 1) |-> f[<<r, c>>]]]]

Frames ==
    UNION {{[rows |-> rows, cols |-> cols, px |-> p] :
              p \in [0..(rows - 1) -> [0..(cols - 1) -> Pixels]]} :
           rows \in Dims, cols \in Dims}

RECURSIVE SumOver(_, _)
SumOver(S, f) ==
    IF S = {} THEN 0
    ELSE LET x == CHOOSE y \in S : TRUE IN f[x] + SumOver(S \ {x}, f)

\* exp(-2 pi i k / n) for n in {1, 2}.
Twiddle(n, k) == IF n = 2 /\ k % 2 = 1 THEN -1 ELSE 1

\* np.fft.fft2
Fft2(g) ==
    Grid(g,
         [uv \in Cells(g) |->
            SumOver(Cells(g),
                    [rc \in Cells(g) |->
                        g.px[rc[1]][rc[2]] * Twiddle(g.rows, uv[1] * rc[1])
                                           * Twiddle(g.cols, uv[2] * rc[2])])])

\* The spectrum left unshifted, zero frequency in the corner (a faulty variant).
FftShiftOmitted(g) == g

\* np.fft.fftshift: every axis rotated by half its length, so that index 0
\* lands on index n div 2.
FftShift(g) ==
    Grid(g,
         [rc \in Cells(g) |->
            g.px[(rc[1] - (g.rows \div 2)) % g.rows][(rc[2] - (g.cols \div 2)) % g.cols]])

Abs(x) == IF x < 0 THEN -x ELSE x

\* np.abs
Magnitude(g) == Grid(g, [rc \in Cells(g) |-> Abs(g.px[rc[1]][rc[2]])])

RECURSIVE FloorLog2(_)
FloorLog2(x) == IF x < 2 THEN 0 ELSE 1 + FloorLog2(x \div 2)

RECURSIVE Pow2(_)
Pow2(e) == IF e = 0 THEN 1 ELSE 2 * Pow2(e - 1)

\* np.log1p in fixed point: 1024 * log2(1 + m), the fraction interpolated
\* linearly. Log1pFix(0) = 0 and the function is strictly increasing on the
\* magnitudes of the frames above, as log1p is; the base of the logarithm
\* cancels in the normalization.
Log1pFix(m) ==
    LET x == m + 1
        e == FloorLog2(x)
    IN 1024 * e + ((x - Pow2(e)) * 1024) \div Pow2(e)

LogMagnitude(g) == Grid(g, [rc \in Cells(g) |-> Log1pFix(g.px[rc[1]][rc[2]])])

GridValues(g) == {g.px[rc[1]][rc[2]] : rc \in Cells(g)}
GridMin(g) == CHOOSE m \in GridValues(g) : \A x \in GridValues(g) : m <= x
GridMax(g) == CHOOSE m \in GridValues(g) : \A x \in GridValues(g) : x <= m

\* cv2.normalize(src, None, 0, 255, NORM_MINMAX) followed by astype(uint8):
\* scale = 255 / (smax - smin), or 0 when smax - smin is not above
\* DBL_EPSILON; shift = -smin * scale; each cell is src * scale + shift,
\* truncated. The product at smax is 255 up to one rounding of the double
\* arithmetic, so its truncation is 255 or 254: `loss` (0 or 1) is that
\* outcome. At smin the cell is smin * scale - smin * scale = 0.
Normalize(g, loss) ==
    LET smin == GridMin(g)
        smax == GridMax(g)
    IN Grid(g,
            [rc \in Cells(g) |->
               IF smax = smin THEN 0
               ELSE IF g.px[rc[1]][rc[2]] = smax THEN 255 - loss
               ELSE ((g.px[rc[1]][rc[2]] - smin) * 255) \div (smax - smin)])

ProcessFrameFft(frame, loss) ==
    Normalize(LogMagnitude(Magnitude(FftShift(Fft2(frame)))), loss)

FftInit ==
    /\ gray \in Frames
    /\ fftOut = <<>>

FftIdle ==
    /\ gray = <<>>
    /\ fftOut = <<>>

TransformFrame ==
    /\ fftOut = <<>>
    /\ \E loss \in {0, 1} : fftOut' = <<ProcessFrameFft(gray, loss)>>
    /\ UNCHANGED gray
    /\ UNCHANGED notFft

(***************************************************************************)
(* The generated viewer. Time is counted in ticks of 1/60 s: the frame     *)
(* step 1/fps with fps = 30 is 2 ticks, the drift tolerance 0.05 s is 3    *)
(* ticks. Both videos have the same duration (same frame count and rate).  *)
(*                                                                         *)
(* The media elements behave as the HTML standard says: play() on a paused *)
(* element clears paused and queues `play`; pause() on a playing element   *)
(* sets paused and queues `timeupdate` and `pause`; both do nothing        *)
(* otherwise; setting currentTime moves the position and queues            *)
(* `timeupdate`. Queued events are dispatched later, one per task, oldest  *)
(* first; user input and timers are tasks of their own and may run in      *)
(* between.                                                                *)
(***************************************************************************)
StepTicks == 2
ToleranceTicks == 3

Min(a, b) == IF a < b THEN a ELSE b
Max(a, b) == IF a > b THEN a ELSE b

Ev(type, src) == [type |-> type, src |-> src]

\* video.play(): the events it queues, given video.paused before the call.
PlayEvents(paused, v) == IF paused THEN <<Ev("play", v)>> ELSE <<>>

\* video.pause(): the events it queues, given video.paused before the call.
PauseEvents(paused, v) ==
    IF ~paused THEN <<Ev("timeupdate", v), Ev("pause", v)>> ELSE <<>>

\* video.currentTime = t: the event it queues.
SeekEvents(v) == <<Ev("timeupdate", v)>>

\* syncVideos without the tolerance (a faulty variant).
SnapOnAnyDrift(source, target) == source # target

\* syncVideos: `Math.abs(source.currentTime - target.currentTime) > 0.05`
SnapNeeded(source, target) == Abs(source - target) > ToleranceTicks

\* stepForward without Math.min (a faulty variant).
StepForwardUnclamped(t) == t + StepTicks

\* stepForward: `Math.min(video1.currentTime + 1/fps, video1.duration)`
StepForwardTime(t) == Min(t + StepTicks, Duration)

\* stepBackward: `Math.max(video1.currentTime - 1/fps, 0)`
StepBackwardTime(t) == Max(t - StepTicks, 0)

\* updateProgress: `(video1.currentTime / video1.duration) * 100`, taken to the
\* range input's nearest step of 0.1.
ProgressValue(t) == (2 * t * 1000 + Duration) \div (2 * Duration)

\* seek: `(seekBar.value / 100) * video1.duration`
SeekTime(value) == (value * Duration) \div 1000

\* The positions of the seek bar that fall on a whole tick.
SeekValues == {v \in 0..1000 : (v * Duration) % 1000 = 0}

Keys == {" ", "ArrowRight", "ArrowLeft", "a"}

ViewInit ==
    /\ paused1 = TRUE
    /\ paused2 = TRUE
    /\ time1 = 0
    /\ time2 = 0
    /\ isSeeking = FALSE
    /\ timers = 0
    /\ btnLabel = "Play"
    /\ seekBar = 0
    /\ events = <<>>
    /\ opsLeft = MaxOps
    /\ lastOp = "load"

ViewIdle ==
    /\ paused1 = TRUE
    /\ paused2 = TRUE
    /\ time1 = 0
    /\ time2 = 0
    /\ isSeeking = FALSE
    /\ timers = 0
    /\ btnLabel = "Play"
    /\ seekBar = 0
    /\ events = <<>>
    /\ opsLeft = 0
    /\ lastOp = "idle"

\* function togglePlayPause()
TogglePlayPause ==
    /\ IF paused1
       THEN /\ paused1' = FALSE
            /\ paused2' = FALSE
            /\ events' = events \o PlayEvents(paused1, 1) \o PlayEvents(paused2, 2)
            /\ btnLabel' = "Pause"
       ELSE /\ paused1' = TRUE
            /\ paused2' = TRUE
            /\ events' = events \o PauseEvents(paused1, 1) \o PauseEvents(paused2, 2)
            /\ btnLabel' = "Play"
    /\ lastOp' = "toggle"
    /\ UNCHANGED <<time1, time2, isSeeking, timers, seekBar>>

\* function stepForward()
StepForward ==
    /\ paused1' = TRUE
    /\ paused2' = TRUE
    /\ btnLabel' = "Play"
    /\ time1' = StepForwardTime(time1)
    /\ time2' = time1'
    /\ events' = events \o PauseEvents(paused1, 1) \o PauseEvents(paused2, 2)
                        \o SeekEvents(1) \o SeekEvents(2)
    /\ lastOp' = "stepForward"
    /\ UNCHANGED <<isSeeking, timers, seekBar>>

\* function stepBackward()
StepBackward ==
    /\ paused1' = TRUE
    /\ paused2' = TRUE
    /\ btnLabel' = "Play"
    /\ time1' = StepBackwardTime(time1)
    /\ time2' = time1'
    /\ events' = events \o PauseEvents(paused1, 1) \o PauseEvents(paused2, 2)
                        \o SeekEvents(1) \o SeekEvents(2)
    /\ lastOp' = "stepBackward"
    /\ UNCHANGED <<isSeeking, timers, seekBar>>

\* function seek(), called by the range input's oninput after the user moved
\* the bar to `value`.
Seek(value) ==
    /\ seekBar' = value
    /\ isSeeking' = TRUE
    /\ time1' = SeekTime(value)
    /\ time2' = SeekTime(value)
    /\ events' = events \o SeekEvents(1) \o SeekEvents(2)
    /\ timers' = timers + 1
    /\ lastOp' = "seek"
    /\ UNCHANGED <<paused1, paused2, btnLabel>>

\* The user may act while earlier events are still queued.
UserMayAct == opsLeft > 0 /\ Len(events) < MaxEvents

\* onclick of the three transport buttons.
Click ==
    /\ UserMayAct
    /\ opsLeft' = opsLeft - 1
    /\ \/ TogglePlayPause
       \/ StepBackward
       \/ StepForward
    /\ UNCHANGED notView

\* document's keydown listener.
KeyDown ==
    /\ UserMayAct
    /\ opsLeft' = opsLeft - 1
    /\ \E key \in Keys :
          CASE key = " " -> TogglePlayPause
            [] key = "ArrowRight" -> StepForward
            [] key = "ArrowLeft" -> StepBackward
            [] OTHER -> /\ lastOp' = "key"
                        /\ UNCHANGED <<paused1, paused2, time1, time2, isSeeking,
                                       timers, btnLabel, seekBar, events>>
    /\ UNCHANGED notView

\* oninput of the seek bar.
SeekInput ==
    /\ UserMayAct
    /\ timers < MaxTimers
    /\ opsLeft' = opsLeft - 1
    /\ \E value \in SeekValues : Seek(value)
    /\ UNCHANGED notView

\* The callback of seek's setTimeout, 100 ms after the seek that set it.
SeekTimer ==
    /\ timers > 0
    /\ isSeeking' = FALSE
    /\ timers' = timers - 1
    /\ lastOp' = "timer"
    /\ UNCHANGED <<paused1, paused2, time1, time2, btnLabel, seekBar, events, opsLeft>>
    /\ UNCHANGED notView

\* Playback: a playing video advances and reports its position. What the
\* element does at its end (pausing itself, restarting on play()) is left out:
\* the position stays at the duration.
Playback ==
    /\ Len(events) < MaxEvents
    /\ \/ /\ ~paused1
          /\ time1 < Duration
          /\ time1' = time1 + 1
          /\ events' = Append(events, Ev("timeupdate", 1))
          /\ UNCHANGED time2
       \/ /\ ~paused2
          /\ time2 < Duration
          /\ time2' = time2 + 1
          /\ events' = Append(events, Ev("timeupdate", 2))
          /\ UNCHANGED time1
    /\ lastOp' = "playback"
    /\ UNCHANGED <<paused1, paused2, isSeeking, timers, btnLabel, seekBar, opsLeft>>
    /\ UNCHANGED notView

\* The `timeupdate` listeners: syncVideos(source), and updateProgress() for
\* video1.
OnTimeUpdate ==
    /\ events # <<>>
    /\ Head(events).type = "timeupdate"
    /\ LET src == Head(events).src
           source == IF src = 1 THEN time1 ELSE time2
           target == IF src = 1 THEN time2 ELSE time1
           snap == ~isSeeking /\ SnapNeeded(source, target)
       IN /\ time1' = IF snap /\ src = 2 THEN source ELSE time1
          /\ time2' = IF snap /\ src = 1 THEN source ELSE time2
          /\ events' = Tail(events) \o (IF snap THEN SeekEvents(3 - src) ELSE <<>>)
          /\ seekBar' = IF src = 1 /\ ~isSeeking /\ Duration # 0
                        THEN ProgressValue(time1)
                        ELSE seekBar
          /\ lastOp' = IF snap THEN "snap" ELSE "nosnap"
    /\ UNCHANGED <<paused1, paused2, isSeeking, timers, btnLabel, opsLeft>>
    /\ UNCHANGED notView

\* The `play` listeners: video1's plays video2, video2's plays video1.
OnPlay ==
    /\ events # <<>>
    /\ Head(events).type = "play"
    /\ IF Head(events).src = 1
       THEN /\ paused2' = FALSE
            /\ events' = Tail(events) \o PlayEvents(paused2, 2)
            /\ UNCHANGED paused1
       ELSE /\ paused1' = FALSE
            /\ events' = Tail(events) \o PlayEvents(paused1, 1)
            /\ UNCHANGED paused2
    /\ lastOp' = "play"
    /\ UNCHANGED <<time1, time2, isSeeking, timers, btnLabel, seekBar, opsLeft>>
    /\ UNCHANGED notView

\* The `pause` listeners: video1's pauses video2, video2's pauses video1.
OnPause ==
    /\ events # <<>>
    /\ Head(events).type = "pause"
    /\ IF Head(events).src = 1
       THEN /\ paused2' = TRUE
            /\ events' = Tail(events) \o PauseEvents(paused2, 2)
            /\ UNCHANGED paused1
       ELSE /\ paused1' = TRUE
            /\ events' = Tail(events) \o PauseEvents(paused1, 1)
            /\ UNCHANGED paused2
    /\ lastOp' = "pause"
    /\ UNCHANGED <<time1, time2, isSeeking, timers, btnLabel, seekBar, opsLeft>>
    /\ UNCHANGED notView

Dispatch == OnTimeUpdate \/ OnPlay \/ OnPause

ViewNext == Click \/ KeyDown \/ SeekInput \/ SeekTimer \/ Playback \/ Dispatch

(***************************************************************************)
(* The specifications.                                                     *)
(***************************************************************************)
Init == PipeInit /\ HtmlIdle /\ FftIdle /\ ViewIdle
Next == PipeNext
Spec == Init /\ [][Next]_vars

HtmlSpecInit == PipeIdle /\ HtmlInit /\ FftIdle /\ ViewIdle
HtmlSpec == HtmlSpecInit /\ [][GenerateDocument]_vars

FftSpecInit == PipeIdle /\ HtmlIdle /\ FftInit /\ ViewIdle
FftSpec == FftSpecInit /\ [][TransformFrame]_vars

ViewerInit == PipeIdle /\ HtmlIdle /\ FftIdle /\ ViewInit
ViewerSpec == ViewerInit /\ [][ViewNext]_vars

\* The event loop runs every queued task: a queued media event is dispatched.
ViewerFair == ViewerSpec /\ WF_vars(Dispatch)

(***************************************************************************)
(* The claims.                                                             *)
(***************************************************************************)

\* C1 (as stated): when process_video returns for an input whose decoder
\* yielded nFrames frames, the output video holds exactly those frames, one
\* per decoded frame, in decode order.
Orig_C1 ==
    pvState = "returned" => outFrames = [i \in 1..nFrames |-> i]

\* C2: with an input path that does not exist, main prints the error with the
\* literal path and returns 1, process_video is never entered (no decoder, no
\* writer) and neither an output frame nor the HTML file is written.
C2_MissingInput ==
    ~inputExists =>
        /\ pvState = "idle"
        /\ capHandle = "none"
        /\ outHandle = "none"
        /\ outFrames = <<>>
        /\ htmlFile = <<>>
        /\ pc \in {"start", "done"}
        /\ pc = "done" =>
              /\ exitCode = <<1>>
              /\ printed = <<[tag |-> "Error: Input file not found: ", arg |-> argInput]>>

\* A run with a missing input has ended.
C2_Witness == pc = "done" /\ ~inputExists /\ exitCode = <<1>> /\ Len(printed) = 1

\* C3 (as stated): main returns 0 exactly when the input exists, the decoder
\* opened, the output writer opened, every frame was written and the HTML was
\* written; it returns 1 otherwise.
Orig_C3 ==
    pc = "done" =>
        /\ exitCode \in {<<0>>, <<1>>}
        /\ exitCode = <<0>> <=>
              /\ inputExists
              /\ capOpens
              /\ writerOpens
              /\ Len(outFrames) = nFrames
              /\ htmlFile # <<>>

\* C4 (as stated): once process_video has returned or propagated an exception,
\* no video handle it acquired is still open.
Orig_C4 ==
    pvState \in {"returned", "raised"} => capHandle # "open" /\ outHandle # "open"

Video1Tag == "<video id=video1 src=\""
Video2Tag == "<video id=video2 src=\""
CloseTag == "\"></video>"

\* The src values of the video elements opened by `tag` in `doc`.
VideoSrcs(doc, tag) ==
    {SubSeq(doc, i + 1,
            (CHOOSE j \in (i + 1)..Len(doc) :
                /\ doc[j] = CloseTag
                /\ \A k \in (i + 1)..(j - 1) : doc[k] # CloseTag) - 1) :
        i \in {i \in 1..Len(doc) : doc[i] = tag}}

Occurrences(s, token) == Cardinality({i \in 1..Len(s) : IsAt(s, token, i)})

\* C5 (as stated): the document has exactly one video1 element, whose src is
\* the input file name, exactly one video2 element, whose src is the output
\* file name, and the placeholder tokens occur only where the file names carry
\* them.
Orig_C5 ==
    hDoc # <<>> =>
        LET doc == hDoc[1]
            input_name == PathName(hIn)
            output_name == PathName(hOut)
        IN /\ Cardinality({i \in 1..Len(doc) : doc[i] = Video1Tag}) = 1
           /\ Cardinality({i \in 1..Len(doc) : doc[i] = Video2Tag}) = 1
           /\ VideoSrcs(doc, Video1Tag) = {input_name}
           /\ VideoSrcs(doc, Video2Tag) = {output_name}
           /\ \A token \in {INPUT_VIDEO, OUTPUT_VIDEO} :
                 Occurrences(doc, token) =
                    Occurrences(input_name, token) + Occurrences(output_name, token)

PlayPausePending == \E i \in 1..Len(events) : events[i].type \in {"play", "pause"}

\* C7 (as stated): the play/pause events that toggle and step operations
\* trigger stop being queued (the cross-propagation terminates), and whenever
\* none is pending both videos are in the same state and the button reads
\* "Pause" exactly when video1 plays.
Orig_C7 ==
    /\ [](~PlayPausePending =>
            /\ paused1 = paused2
            /\ btnLabel = "Pause" <=> ~paused1)
    /\ <>[](~PlayPausePending)

Uniform(frame) == Cardinality(GridValues(frame)) = 1

Centre(g) == <<g.rows \div 2, g.cols \div 2>>

NonZeroCells(g) == {rc \in Cells(g) : g.px[rc[1]][rc[2]] # 0}

\* C8 (as stated): the grid holds 0 and 255 unless the frame is uniform; for a
\* uniform frame it has exactly one nonzero cell, at the centre, and every
\* other cell at the minimum.
Orig_C8 ==
    fftOut # <<>> =>
        LET g == fftOut[1]
        IN IF Uniform(gray)
           THEN NonZeroCells(g) = {Centre(g)}
           ELSE 0 \in GridValues(g) /\ 255 \in GridValues(g)

\* C8 (amended): the grid is all 0 exactly when the magnitudes of the
\* transform are all equal, which is so for the all-zero frame, for a
\* one-pixel frame and for a frame with a single nonzero pixel; otherwise it
\* holds 0 and its largest value is 255 or 254. For a uniform frame of nonzero
\* intensity and more than one pixel it has exactly one nonzero cell, at the
\* centre.
C8_Amended ==
    fftOut # <<>> =>
        LET g == fftOut[1]
            spectrum == {Abs(x) : x \in GridValues(Fft2(gray))}
        IN /\ g.rows = gray.rows /\ g.cols = gray.cols
           /\ GridValues(g) \subseteq 0..255
           /\ IF Cardinality(spectrum) = 1
              THEN NonZeroCells(g) = {}
              ELSE 0 \in GridValues(g) /\ GridMax(g) \in {254, 255}
           /\ (Uniform(gray) /\ GridValues(gray) # {0} /\ Cardinality(Cells(gray)) > 1) =>
                 /\ NonZeroCells(g) = {Centre(g)}
                 /\ g.px[Centre(g)[1]][Centre(g)[2]] \in {254, 255}
           /\ (GridValues(gray) = {0} \/ Cardinality(Cells(gray)) = 1) =>
                 NonZeroCells(g) = {}

\* A uniform white 2x2 frame has been transformed.
C8_Witness ==
    /\ fftOut # <<>>
    /\ gray.rows = 2 /\ gray.cols = 2
    /\ GridValues(gray) = {255}
    /\ NonZeroCells(fftOut[1]) = {<<1, 1>>}

\* C9: a stepForward or stepBackward leaves both videos paused, video1 moved
\* by 1/30 s (2 ticks) in the step direction, clamped to [0, duration], and
\* video2 at video1's position; video1's position is always in [0, duration].
C9_StepClamped ==
    /\ [](time1 \in 0..Duration)
    /\ [][(StepForward =>
              /\ paused1' /\ paused2'
              /\ time1' = (IF time1 + 2 > Duration THEN Duration ELSE time1 + 2)
              /\ time2' = time1')
          /\ (StepBackward =>
              /\ paused1' /\ paused2'
              /\ time1' = (IF time1 - 2 < 0 THEN 0 ELSE time1 - 2)
              /\ time2' = time1')]_vars

\* A stepForward, taken while playing, has been clamped at the duration.
C9_Witness ==
    /\ lastOp = "stepForward"
    /\ time1 = Duration /\ time2 = Duration
    /\ paused1 /\ paused2
    /\ \E i \in 1..Len(events) : events[i].type = "pause"

\* C10 (as stated): isSeeking is true while any seek's reset timer is pending
\* and false once every reset timer has fired.
Orig_C10 ==
    /\ timers > 0 => isSeeking
    /\ timers = 0 => ~isSeeking

====
